---- MODULE Spec2Model ----
(***************************************************************************)
(* A model of smallt (src/smallt.py): a task list kept in the text file    *)
(* tasks.md, the operations on it, and the interactive shell.              *)
(*                                                                         *)
(* Text is modelled character by character: a string is a sequence of      *)
(* one-character strings, and every str method the program uses (strip,    *)
(* lower, split, splitlines, startswith, replace, join, int) is an         *)
(* operator that computes what the method computes.                        *)
(***************************************************************************)
EXTENDS Integers, Sequences, FiniteSets, TLC

VARIABLES
    file,   \* the file TASK_FILE: [exists, bytes, mtime]
    last,   \* the last call made and what it returned (history)
    hist,   \* the task lines before the current run of add calls, and the adds
    nops,   \* the number of calls or shell commands made so far
    sh,     \* the interactive shell: its position, status_msg and the screen
    inst    \* two instances of the program at work on the one file

vars == <<file, last, hist, nops, sh, inst>>

---------------------------------------------------------------------------
(* Characters and the str methods of Python the program uses.              *)

NL == "\n"
CR == "\r"
SP == " "
TAB == "\t"
FF == "\f"

\* What str.strip() and str.split() take for whitespace.
Whitespace == {SP, NL, CR, TAB, FF}

UpperCase == << "A", "B", "C", "D", "E", "F", "G", "H", "I", "J", "K", "L", "M",
                "N", "O", "P", "Q", "R", "S", "T", "U", "V", "W", "X", "Y", "Z" >>
LowerCase == << "a", "b", "c", "d", "e", "f", "g", "h", "i", "j", "k", "l", "m",
                "n", "o", "p", "q", "r", "s", "t", "u", "v", "w", "x", "y", "z" >>

Digits == << "0", "1", "2", "3", "4", "5", "6", "7", "8", "9" >>

SetMin(S) == CHOOSE m \in S : \A n \in S : m <= n

\* The lower-case letter of each upper-case letter.
ToLower ==
    [c \in {UpperCase[i] : i \in DOMAIN UpperCase} |->
        LowerCase[CHOOSE i \in DOMAIN UpperCase : UpperCase[i] = c]]

lower_char(c) == IF c \in DOMAIN ToLower THEN ToLower[c] ELSE c

\* str.lower()
lower(s) == [i \in 1..Len(s) |-> lower_char(s[i])]

RECURSIVE lstrip(_)
lstrip(s) ==
    IF s # <<>> /\ Head(s) \in Whitespace THEN lstrip(Tail(s)) ELSE s

RECURSIVE rstrip(_)
rstrip(s) ==
    IF s # <<>> /\ s[Len(s)] \in Whitespace
    THEN rstrip(SubSeq(s, 1, Len(s) - 1))
    ELSE s

\* str.strip()
strip(s) == rstrip(lstrip(s))

\* str.startswith(p)
startswith(s, p) == Len(s) >= Len(p) /\ SubSeq(s, 1, Len(p)) = p

\* p in s
contains(s, p) ==
    \E i \in 1..(Len(s) - Len(p) + 1) : SubSeq(s, i, i + Len(p) - 1) = p

\* str.replace(old, new, count): the first count occurrences, all of them
\* when count is negative.
RECURSIVE replace(_, _, _, _)
replace(s, old, new, count) ==
    IF count = 0 \/ Len(s) < Len(old) THEN s
    ELSE IF SubSeq(s, 1, Len(old)) = old
         THEN new \o replace(SubSeq(s, Len(old) + 1, Len(s)), old, new, count - 1)
         ELSE <<Head(s)>> \o replace(Tail(s), old, new, count)

\* sep.join(parts)
RECURSIVE join(_, _)
join(sep, parts) ==
    IF parts = <<>> THEN <<>>
    ELSE IF Len(parts) = 1 THEN parts[1]
    ELSE parts[1] \o sep \o join(sep, Tail(parts))

\* str.splitlines(): a line ends at \n, \r or \r\n; no empty last line.
RECURSIVE split_at(_, _, _)
split_at(s, i, start) ==
    IF i > Len(s)
    THEN IF start > Len(s) THEN <<>> ELSE <<SubSeq(s, start, Len(s))>>
    ELSE IF s[i] \in {NL, FF}
         THEN <<SubSeq(s, start, i - 1)>> \o split_at(s, i + 1, i + 1)
    ELSE IF s[i] = CR
         THEN LET j == IF i < Len(s) /\ s[i + 1] = NL THEN i + 1 ELSE i
              IN  <<SubSeq(s, start, i - 1)>> \o split_at(s, j + 1, j + 1)
    ELSE split_at(s, i + 1, start)

splitlines(s) == split_at(s, 1, 1)

\* str.split(): the words between runs of whitespace.
RECURSIVE split(_)
split(s) ==
    LET t == lstrip(s)
    IN  IF t = <<>> THEN <<>>
        ELSE LET ws == {i \in 1..Len(t) : t[i] \in Whitespace}
             IN  IF ws = {} THEN <<t>>
                 ELSE LET i == SetMin(ws)
                      IN  <<SubSeq(t, 1, i - 1)>> \o split(SubSeq(t, i + 1, Len(t)))

digit_value(c) == (CHOOSE i \in DOMAIN Digits : Digits[i] = c) - 1

is_digits(s) == s # <<>> /\ \A i \in 1..Len(s) : \E k \in DOMAIN Digits : Digits[k] = s[i]

RECURSIVE digits_value(_)
digits_value(s) ==
    IF s = <<>> THEN 0
    ELSE 10 * digits_value(SubSeq(s, 1, Len(s) - 1)) + digit_value(s[Len(s)])

\* Whether int(s) returns (otherwise it raises ValueError): an optional sign
\* and decimal digits.
int_ok(s) ==
    IF s # <<>> /\ Head(s) \in {"+", "-"} THEN is_digits(Tail(s)) ELSE is_digits(s)

\* int(s)
int(s) ==
    IF Head(s) = "-" THEN 0 - digits_value(Tail(s))
    ELSE IF Head(s) = "+" THEN digits_value(Tail(s))
    ELSE digits_value(s)

\* Path.read_text(): text mode reads with universal newlines, \r\n and \r
\* arrive as \n.
RECURSIVE read_text(_)
read_text(bytes) ==
    IF bytes = <<>> THEN <<>>
    ELSE IF Head(bytes) = CR
         THEN <<NL>> \o read_text(IF Len(bytes) >= 2 /\ bytes[2] = NL
                                  THEN SubSeq(bytes, 3, Len(bytes))
                                  ELSE Tail(bytes))
         ELSE <<Head(bytes)>> \o read_text(Tail(bytes))

---------------------------------------------------------------------------
(* The literals of the program.                                            *)

\* "# Task List"
HEADER == << "#", " ", "T", "a", "s", "k", " ", "L", "i", "s", "t" >>
\* "# Task List\n\n"
FRESH == HEADER \o << NL, NL >>
\* "- ["
TASK_PREFIX == << "-", " ", "[" >>
\* "[x]", "[ ]"
BOX_X == << "[", "x", "]" >>
BOX_SP == << "[", " ", "]" >>
\* "- [ ]", "- [x]", "- [X]"
MARK_SP == << "-", " ", "[", " ", "]" >>
MARK_X == << "-", " ", "[", "x", "]" >>
MARK_UX == << "-", " ", "[", "X", "]" >>
\* "- [ ] "
NEW_TASK == << "-", " ", "[", " ", "]", " " >>

is_task_line(l) == startswith(l, TASK_PREFIX)

\* "[x]" in line.lower()
is_completed(l) == contains(lower(l), BOX_X)

---------------------------------------------------------------------------
(* Storage.  A file is [exists, bytes, mtime]: mtime counts the writes to   *)
(* it.  io = [rd, wr] says whether reading and writing the file succeed     *)
(* during a call (an OSError or a UnicodeDecodeError on read, an OSError    *)
(* on write, otherwise).                                                    *)

IO_OK == [rd |-> TRUE, wr |-> TRUE]

\* The file after a write of bytes that replaces its content.
written(f, bytes) == [exists |-> TRUE, bytes |-> bytes, mtime |-> f.mtime + 1]

\* A file with the given content, not yet written by the program.
FileOf(bytes) == [exists |-> TRUE, bytes |-> bytes, mtime |-> 0]

NoFile == [exists |-> FALSE, bytes |-> <<>>, mtime |-> 0]

\* A status string: its emoji prefix (mark), which message it is (kind), and
\* the text or the number the message carries.
Status(mark, kind, text, num) ==
    [mark |-> mark, kind |-> kind, text |-> text, num |-> num]

\* status_msg = None
NoStatus == Status("NONE", "None", <<>>, 0)

\* What a call returns: the file it leaves, its status, and whether it
\* raised instead of returning.
Returned(f, status) == [f |-> f, status |-> status, raised |-> FALSE]
Raised(f) == [f |-> f, status |-> NoStatus, raised |-> TRUE]

\* task_path.write_text("# Task List\n\n") outside any try block, or
\* inside the except clause: an OSError propagates.
write_fresh(f, io) ==
    IF io.wr THEN [f |-> written(f, FRESH), raised |-> FALSE]
    ELSE [f |-> f, raised |-> TRUE]

ensure_task_file(f, io) ==
    IF ~f.exists THEN write_fresh(f, io)
    ELSE IF ~io.rd THEN write_fresh(f, io)
    ELSE LET content == strip(read_text(f.bytes))
         IN  IF content = <<>> \/ ~startswith(content, HEADER)
             THEN LET existing_tasks == SelectSeq(splitlines(content), is_task_line)
                      new_content ==
                          FRESH \o (IF existing_tasks # <<>>
                                    THEN join(<<NL>>, existing_tasks) \o <<NL>>
                                    ELSE <<>>)
                  IN  IF io.wr
                      THEN [f |-> written(f, new_content), raised |-> FALSE]
                      ELSE write_fresh(f, io)
             ELSE [f |-> f, raised |-> FALSE]

\* [lines, f, raised]: the lines read, the file as load leaves it.
load_tasks(f, io) ==
    IF f.exists /\ io.rd
    THEN [lines |-> splitlines(read_text(f.bytes)), f |-> f, raised |-> FALSE]
    ELSE LET e == ensure_task_file(f, io)
         IN  [lines |-> <<HEADER, <<>>>>, f |-> e.f, raised |-> e.raised]

\* [f, ok]
save_tasks(f, lines, io) ==
    IF io.wr
    THEN [f |-> written(f, join(<<NL>>, lines) \o <<NL>>), ok |-> TRUE]
    ELSE [f |-> f, ok |-> FALSE]

---------------------------------------------------------------------------
(* Core operations.                                                        *)

\* One listed task: its number, the line, and whether it is dimmed.
Listed(tasks) ==
    [i \in 1..Len(tasks) |->
        [number |-> i, line |-> tasks[i], completed |-> is_completed(tasks[i])]]

\* [listed, f, raised]
list_tasks(f, io) ==
    LET ld == load_tasks(f, io)
    IN  [listed |-> Listed(SelectSeq(ld.lines, is_task_line)),
         f |-> ld.f, raised |-> ld.raised]

add_task(f, task_text, io) ==
    IF strip(task_text) = <<>>
    THEN Returned(f, Status("ERR", "EmptyInput", <<>>, 0))
    ELSE IF io.wr
         THEN Returned(written(f, (IF f.exists THEN f.bytes ELSE <<>>)
                               \o NEW_TASK \o strip(task_text) \o <<NL>>),
                       Status("OK", "Added", strip(task_text), 0))
         ELSE Returned(f, Status("ERR", "StorageError", <<>>, 0))

\* [i for i, l in enumerate(lines) if l.startswith("- [")], 1-based
task_line_indexes(lines) ==
    LET S == {i \in 1..Len(lines) : is_task_line(lines[i])}
        RECURSIVE sorted(_)
        sorted(T) == IF T = {} THEN <<>>
                     ELSE <<SetMin(T)>> \o sorted(T \ {SetMin(T)})
    IN  sorted(S)

\* check_task with the range test off by one (index >= len(task_lines)).
check_task_off_by_one(f, index, io) ==
    LET ld == load_tasks(f, io)
        lines == ld.lines
        task_lines == task_line_indexes(lines)
    IN  IF ld.raised THEN Raised(ld.f)
        ELSE IF index < 1 \/ index >= Len(task_lines)
        THEN Returned(ld.f, Status("ERR", "NotFound", <<>>, 0))
        ELSE LET real_idx == task_lines[index]
                 line == lines[real_idx]
             IN  IF is_completed(line)
                 THEN Returned(ld.f, Status("WARN", "AlreadyComplete", <<>>, 0))
                 ELSE LET sv == save_tasks(ld.f,
                                    [lines EXCEPT ![real_idx] =
                                        replace(line, BOX_SP, BOX_X, 1)], io)
                      IN  IF sv.ok
                          THEN Returned(sv.f, Status("CHECK", "Checked", <<>>, index))
                          ELSE Returned(sv.f, Status("ERR", "StorageError", <<>>, 0))

check_task(f, index, io) ==
    LET ld == load_tasks(f, io)
        lines == ld.lines
        task_lines == task_line_indexes(lines)
    IN  IF ld.raised THEN Raised(ld.f)
        ELSE IF index < 1 \/ index > Len(task_lines)
        THEN Returned(ld.f, Status("ERR", "NotFound", <<>>, 0))
        ELSE LET real_idx == task_lines[index]
                 line == lines[real_idx]
             IN  IF is_completed(line)
                 THEN Returned(ld.f, Status("WARN", "AlreadyComplete", <<>>, 0))
                 ELSE LET sv == save_tasks(ld.f,
                                    [lines EXCEPT ![real_idx] =
                                        replace(line, BOX_SP, BOX_X, 1)], io)
                      IN  IF sv.ok
                          THEN Returned(sv.f, Status("CHECK", "Checked", <<>>, index))
                          ELSE Returned(sv.f, Status("ERR", "StorageError", <<>>, 0))

\* del lines[real_idx]
del(lines, k) == SubSeq(lines, 1, k - 1) \o SubSeq(lines, k + 1, Len(lines))

\* delete_task taking the rank for the position among all lines
\* (del lines[index - 1]).
delete_task_by_position(f, index, io) ==
    LET ld == load_tasks(f, io)
        lines == ld.lines
        task_lines == task_line_indexes(lines)
    IN  IF ld.raised THEN Raised(ld.f)
        ELSE IF index < 1 \/ index > Len(task_lines)
        THEN Returned(ld.f, Status("ERR", "NotFound", <<>>, 0))
        ELSE LET real_idx == index
                 task_text ==
                     strip(replace(replace(replace(lines[real_idx],
                         MARK_SP, <<>>, -1), MARK_X, <<>>, -1), MARK_UX, <<>>, -1))
                 sv == save_tasks(ld.f, del(lines, real_idx), io)
             IN  IF sv.ok
                 THEN Returned(sv.f, Status("BIN", "Deleted", task_text, 0))
                 ELSE Returned(sv.f, Status("ERR", "StorageError", <<>>, 0))

delete_task(f, index, io) ==
    LET ld == load_tasks(f, io)
        lines == ld.lines
        task_lines == task_line_indexes(lines)
    IN  IF ld.raised THEN Raised(ld.f)
        ELSE IF index < 1 \/ index > Len(task_lines)
        THEN Returned(ld.f, Status("ERR", "NotFound", <<>>, 0))
        ELSE LET real_idx == task_lines[index]
                 task_text ==
                     strip(replace(replace(replace(lines[real_idx],
                         MARK_SP, <<>>, -1), MARK_X, <<>>, -1), MARK_UX, <<>>, -1))
                 sv == save_tasks(ld.f, del(lines, real_idx), io)
             IN  IF sv.ok
                 THEN Returned(sv.f, Status("BIN", "Deleted", task_text, 0))
                 ELSE Returned(sv.f, Status("ERR", "StorageError", <<>>, 0))

\* l.startswith("- [x]")
is_done_line(l) == startswith(l, MARK_X)
is_not_done_line(l) == ~is_done_line(l)
is_not_task_line(l) == ~is_task_line(l)

\* clear_done_tasks counting the lines marked [x] or [X] while it removes
\* the lines marked [x] only.
clear_done_tasks_counts_any_case(f, io) ==
    LET ld == load_tasks(f, io)
        done_any_case(l) == startswith(lower(l), MARK_X)
        original_count == Len(SelectSeq(ld.lines, done_any_case))
        new_lines == SelectSeq(ld.lines, is_not_done_line)
        sv == save_tasks(ld.f, new_lines, io)
    IN  IF ld.raised THEN Raised(ld.f)
        ELSE IF sv.ok
        THEN Returned(sv.f, Status("BROOM", "Cleared", <<>>, original_count))
        ELSE Returned(sv.f, Status("ERR", "StorageError", <<>>, 0))

clear_done_tasks(f, io) ==
    LET ld == load_tasks(f, io)
        original_count == Len(SelectSeq(ld.lines, is_done_line))
        new_lines == SelectSeq(ld.lines, is_not_done_line)
        sv == save_tasks(ld.f, new_lines, io)
    IN  IF ld.raised THEN Raised(ld.f)
        ELSE IF sv.ok
        THEN Returned(sv.f, Status("BROOM", "Cleared", <<>>, original_count))
        ELSE Returned(sv.f, Status("ERR", "StorageError", <<>>, 0))

\* clear_all_tasks saving before it looks at task_count.
clear_all_tasks_always_saves(f, io) ==
    LET ld == load_tasks(f, io)
        task_count == Len(SelectSeq(ld.lines, is_task_line))
        new_lines == SelectSeq(ld.lines, is_not_task_line)
        sv == save_tasks(ld.f, new_lines, io)
    IN  IF ld.raised THEN Raised(ld.f)
        ELSE IF ~sv.ok
        THEN Returned(sv.f, Status("ERR", "StorageError", <<>>, 0))
        ELSE IF task_count = 0
        THEN Returned(sv.f, Status("WARN", "NoTasks", <<>>, 0))
        ELSE Returned(sv.f, Status("BIN", "ClearedAll", <<>>, task_count))

clear_all_tasks(f, io) ==
    LET ld == load_tasks(f, io)
        task_count == Len(SelectSeq(ld.lines, is_task_line))
        new_lines == SelectSeq(ld.lines, is_not_task_line)
        sv == save_tasks(ld.f, new_lines, io)
    IN  IF ld.raised THEN Raised(ld.f)
        ELSE IF task_count = 0
        THEN Returned(ld.f, Status("WARN", "NoTasks", <<>>, 0))
        ELSE IF sv.ok
        THEN Returned(sv.f, Status("BIN", "ClearedAll", <<>>, task_count))
        ELSE Returned(sv.f, Status("ERR", "StorageError", <<>>, 0))

---------------------------------------------------------------------------
(* The files the program may find when it starts, the arguments it is      *)
(* called with, and the bounds of the model.                               *)

\* The number of calls (or of shell commands) in a run.
MaxOps == 3

\* "- [ ] a", "- [x] b", "- [X] c", "- [ ] [x]", "- [] d", "note"
LINE_A == NEW_TASK \o << "a" >>
LINE_B_DONE == MARK_X \o << " ", "b" >>
LINE_C_DONE == MARK_UX \o << " ", "c" >>
LINE_TAGGED == NEW_TASK \o BOX_X
LINE_NOBOX == << "-", " ", "[", "]", " ", "d" >>
LINE_NOTE == << "n", "o", "t", "e" >>

\* File contents: none, a fresh file, a header without its newline, tasks
\* of every marker with other text between them, a last line without its
\* newline, no header, a blank line before the header, a longer first
\* line, \r\n line ends, text that is no task, the same task twice, and
\* spaces before the first line and after the last.
InitBytes == {
    <<>>,
    FRESH,
    HEADER,
    FRESH \o LINE_A \o <<NL>> \o LINE_B_DONE \o <<NL>>,
    HEADER \o <<NL>> \o LINE_A \o <<NL>> \o LINE_NOTE \o <<NL>>
           \o LINE_C_DONE \o <<NL>> \o LINE_B_DONE \o <<NL>>,
    HEADER \o <<NL>> \o LINE_TAGGED \o <<NL>> \o LINE_NOTE \o <<NL>>,
    HEADER \o <<NL>> \o LINE_NOBOX \o <<NL>> \o LINE_A,
    LINE_A \o <<NL>> \o LINE_NOTE \o <<NL>> \o LINE_B_DONE \o <<NL>>,
    <<NL>> \o HEADER \o <<NL>> \o LINE_A \o <<NL>>,
    HEADER \o << "s", NL >> \o LINE_B_DONE \o <<NL>>,
    HEADER \o <<CR, NL>> \o LINE_A \o <<CR, NL>>,
    LINE_NOTE \o <<NL>>,
    HEADER \o <<NL>> \o LINE_A \o <<NL>> \o LINE_A \o <<NL>>
           \o LINE_B_DONE \o <<NL>>,
    <<SP>> \o LINE_A \o <<NL>> \o LINE_B_DONE \o <<SP, SP>>
}

InitFiles ==
    {NoFile} \cup {FileOf(b) : b \in InitBytes}

\* The texts add is called with: "a", " b " and " ".
AddTexts == { << "a" >>, << SP, "b", SP >>, << SP >> }

\* The numbers check and delete are called with.
Indexes == {-1, 0, 1, 2, 3, 4}

\* The task lines of a file, as load_tasks reads them.
TaskLines(f) == SelectSeq(load_tasks(f, IO_OK).lines, is_task_line)

\* The lines of a file that are no task lines.
OtherLines(f) == SelectSeq(load_tasks(f, IO_OK).lines, is_not_task_line)

---------------------------------------------------------------------------
(* The calls.  last records the call: its name and arguments, the file     *)
(* before it, and what it returned.  An action binds what the function     *)
(* returns with \E r \in {...}, which evaluates the call once.              *)

\* prev: what the call before returned, kept when the call repeats the
\* operation of the call before.
NoPrev == [op |-> "none", kind |-> "None", num |-> 0]

Call(op, text, index, pre, status, raised, listed) ==
    [op |-> op, text |-> text, index |-> index, pre |-> pre,
     status |-> status, raised |-> raised, listed |-> listed,
     prev |-> IF last.op = op
              THEN [op |-> last.op, kind |-> last.status.kind,
                    num |-> last.status.num]
              ELSE NoPrev]

\* Before the first call.
NoCall ==
    [op |-> "none", text |-> <<>>, index |-> 0, pre |-> NoFile,
     status |-> NoStatus, raised |-> FALSE, listed |-> <<>>,
     prev |-> NoPrev]

\* No second instance: the instances of RaceSpec are not running.
Instances == {"A", "B"}

NoInst ==
    [i \in Instances |->
        [pc |-> "off", call |-> [op |-> "none", text |-> <<>>, index |-> 0],
         snap |-> NoFile, status |-> NoStatus]]

ShellOff == [pc |-> "off", status_msg |-> NoStatus,
             screen |-> [tasks |-> <<>>, status |-> NoStatus], trace |-> <<>>]

Init ==
    /\ file \in InitFiles
    /\ last = NoCall
    /\ hist = [base |-> <<>>, adds |-> <<>>]
    /\ nops = 0
    /\ sh = ShellOff
    /\ inst = NoInst

\* A call other than add starts a new run of adds.
NewHist(f) == [base |-> TaskLines(f), adds |-> <<>>]

\* main(): ensure_task_file() before anything else.
Start ==
    /\ last.op = "none"
    /\ \E e \in {ensure_task_file(file, IO_OK)} :
           /\ file' = e.f
           /\ last' = Call("ensure", <<>>, 0, file, NoStatus, e.raised, <<>>)
           /\ hist' = NewHist(e.f)
    /\ UNCHANGED <<nops, sh, inst>>

Ready == last.op # "none" /\ ~last.raised /\ sh.pc = "off" /\ nops < MaxOps

Ensure ==
    /\ Ready
    /\ \E e \in {ensure_task_file(file, IO_OK)} :
           /\ file' = e.f
           /\ last' = Call("ensure", <<>>, 0, file, NoStatus, e.raised, <<>>)
           /\ hist' = NewHist(e.f)
    /\ nops' = nops + 1
    /\ UNCHANGED <<sh, inst>>

List ==
    /\ Ready
    /\ \E r \in {list_tasks(file, IO_OK)} :
           /\ file' = r.f
           /\ last' = Call("list", <<>>, 0, file, NoStatus, r.raised, r.listed)
    /\ nops' = nops + 1
    /\ UNCHANGED <<hist, sh, inst>>

Add(text) ==
    /\ Ready
    /\ \E r \in {add_task(file, text, IO_OK)} :
           /\ file' = r.f
           /\ last' = Call("add", text, 0, file, r.status, r.raised, <<>>)
           /\ hist' = IF r.status.kind = "Added"
                      THEN [hist EXCEPT !.adds = Append(@, r.status.text)]
                      ELSE hist
    /\ nops' = nops + 1
    /\ UNCHANGED <<sh, inst>>

Check(index) ==
    /\ Ready
    /\ \E r \in {check_task(file, index, IO_OK)} :
           /\ file' = r.f
           /\ last' = Call("check", <<>>, index, file, r.status, r.raised, <<>>)
           /\ hist' = NewHist(r.f)
    /\ nops' = nops + 1
    /\ UNCHANGED <<sh, inst>>

Delete(index) ==
    /\ Ready
    /\ \E r \in {delete_task(file, index, IO_OK)} :
           /\ file' = r.f
           /\ last' = Call("delete", <<>>, index, file, r.status, r.raised, <<>>)
           /\ hist' = NewHist(r.f)
    /\ nops' = nops + 1
    /\ UNCHANGED <<sh, inst>>

ClearDone ==
    /\ Ready
    /\ \E r \in {clear_done_tasks(file, IO_OK)} :
           /\ file' = r.f
           /\ last' = Call("clear", <<>>, 0, file, r.status, r.raised, <<>>)
           /\ hist' = NewHist(r.f)
    /\ nops' = nops + 1
    /\ UNCHANGED <<sh, inst>>

ClearAll ==
    /\ Ready
    /\ \E r \in {clear_all_tasks(file, IO_OK)} :
           /\ file' = r.f
           /\ last' = Call("clearall", <<>>, 0, file, r.status, r.raised, <<>>)
           /\ hist' = NewHist(r.f)
    /\ nops' = nops + 1
    /\ UNCHANGED <<sh, inst>>

Next ==
    \/ Start
    \/ Ensure
    \/ List
    \/ \E text \in AddTexts : Add(text)
    \/ \E index \in Indexes : Check(index)
    \/ \E index \in Indexes : Delete(index)
    \/ ClearDone
    \/ ClearAll

Spec == Init /\ [][Next]_vars

---------------------------------------------------------------------------
(* The interactive shell, run_shell.  sh.pc is where the loop stands:      *)
(* "start" before ensure_task_file, "idle" at input(""), "confirm" at the  *)
(* (y/N) prompt, "done" after the loop, "crashed" when an exception left   *)
(* run_shell.  sh.screen is what the latest redraw printed; sh.trace is    *)
(* what the latest step did, in order.                                     *)

\* input() raising EOFError and KeyboardInterrupt.
EOF == << "^D" >>
INT == << "^C" >>

\* "exit", "add ", "check ", "delete ", "clear", "clearall", "list", "y"
CMD_EXIT == << "e", "x", "i", "t" >>
CMD_ADD == << "a", "d", "d", " " >>
CMD_CHECK == << "c", "h", "e", "c", "k", " " >>
CMD_DELETE == << "d", "e", "l", "e", "t", "e", " " >>
CMD_CLEAR == << "c", "l", "e", "a", "r" >>
CMD_CLEARALL == << "c", "l", "e", "a", "r", "a", "l", "l" >>
CMD_LIST == << "l", "i", "s", "t" >>
YES == << "y" >>

\* The lines typed at the prompt: "exit", "Exit ", "add A  b", "add",
\* "check", "check 1", "check x", " Check 2 ", "delete", "delete 1",
\* "delete x", "clear", "clearall", "list", "foo".
CommandLines == {
    CMD_EXIT,
    << "E", "x", "i", "t", " " >>,
    CMD_ADD \o << "A", " ", " ", "b" >>,
    << "a", "d", "d" >>,
    << "c", "h", "e", "c", "k" >>,
    CMD_CHECK \o << "1" >>,
    CMD_CHECK \o << "x" >>,
    << " ", "C", "h", "e", "c", "k", " ", "2", " " >>,
    << "d", "e", "l", "e", "t", "e" >>,
    CMD_DELETE \o << "1" >>,
    CMD_DELETE \o << "x" >>,
    CMD_CLEAR,
    CMD_CLEARALL,
    CMD_LIST,
    << "f", "o", "o" >>
}

\* The lines typed at the (y/N) prompt: "y", "Y", " y ", "n", "", "yes".
ConfirmLines == {
    << "y" >>, << "Y" >>, << " ", "y", " " >>, << "n" >>, <<>>,
    << "y", "e", "s" >>
}

\* status_msg.startswith of the error emoji
is_error(status) == status.mark = "ERR"

INVALID_NUMBER == Status("ERR", "InvalidNumber", <<>>, 0)
CANCELLED == Status("ERR", "Cancelled", <<>>, 0)
UNKNOWN_COMMAND == Status("Q", "UnknownCommand", <<>>, 0)

\* redraw that never prints the status.
redraw_without_status(f, status, io) ==
    LET r == list_tasks(f, io)
    IN  [f |-> r.f, raised |-> r.raised,
         screen |-> [tasks |-> r.listed, status |-> NoStatus]]

\* redraw(status): the tasks it lists and the status it prints (none when
\* status is None).  [f, raised, screen]
redraw(f, status, io) ==
    LET r == list_tasks(f, io)
    IN  [f |-> r.f, raised |-> r.raised,
         screen |-> [tasks |-> r.listed, status |-> status]]

\* idx = int(command.split()[1]) raises IndexError or ValueError
bad_number(command) ==
    Len(split(command)) < 2 \/ ~int_ok(split(command)[2])

\* The branch of the if/elif chain a command other than exit and clearall
\* takes: [op, index, r], r what the function called returned.
dispatch(f, command, io) ==
    IF startswith(command, CMD_ADD)
    THEN [op |-> "add", index |-> 0,
          r |-> add_task(f, join(<<SP>>, Tail(split(command))), io)]
    ELSE IF startswith(command, CMD_CHECK)
    THEN IF bad_number(command)
         THEN [op |-> "invalid", index |-> 0, r |-> Returned(f, INVALID_NUMBER)]
         ELSE [op |-> "check", index |-> int(split(command)[2]),
               r |-> check_task(f, int(split(command)[2]), io)]
    ELSE IF startswith(command, CMD_DELETE)
    THEN IF bad_number(command)
         THEN [op |-> "invalid", index |-> 0, r |-> Returned(f, INVALID_NUMBER)]
         ELSE [op |-> "delete", index |-> int(split(command)[2]),
               r |-> delete_task(f, int(split(command)[2]), io)]
    ELSE IF command = CMD_CLEAR
    THEN [op |-> "clear", index |-> 0, r |-> clear_done_tasks(f, io)]
    ELSE IF command = CMD_LIST
    THEN [op |-> "list", index |-> 0, r |-> Returned(f, NoStatus)]
    ELSE [op |-> "unknown", index |-> 0, r |-> Returned(f, UNKNOWN_COMMAND)]

\* confirm_clearall without lower(): only "y" confirms.
confirm_clearall_case_sensitive(f, answer, io) ==
    IF answer \in {EOF, INT}
    THEN [op |-> "cancel", index |-> 0, r |-> Returned(f, CANCELLED)]
    ELSE IF strip(answer) = YES
    THEN [op |-> "clearall", index |-> 0, r |-> clear_all_tasks(f, io)]
    ELSE [op |-> "cancel", index |-> 0, r |-> Returned(f, CANCELLED)]

\* confirm = input("(y/N): ").strip().lower(); clear_all_tasks() if it is
\* 'y', Cancelled otherwise and on EOFError or KeyboardInterrupt.
confirm_clearall(f, answer, io) ==
    IF answer \in {EOF, INT}
    THEN [op |-> "cancel", index |-> 0, r |-> Returned(f, CANCELLED)]
    ELSE IF lower(strip(answer)) = YES
    THEN [op |-> "clearall", index |-> 0, r |-> clear_all_tasks(f, io)]
    ELSE [op |-> "cancel", index |-> 0, r |-> Returned(f, CANCELLED)]

NoScreen == [tasks |-> <<>>, status |-> NoStatus]

ShellInit ==
    /\ file \in InitFiles
    /\ last = NoCall
    /\ hist = [base |-> <<>>, adds |-> <<>>]
    /\ nops = 0
    /\ sh = [pc |-> "start", status_msg |-> NoStatus, screen |-> NoScreen,
             trace |-> <<>>]
    /\ inst = NoInst

\* The end of an iteration and the top of the next: the pause after an
\* error status, then redraw(status_msg) and status_msg = None.
LoopAgain(d, line, pre) ==
    \E rd \in {redraw(d.r.f, d.r.status, IO_OK)} :
        /\ file' = rd.f
        /\ last' = Call(d.op, line, d.index, pre, d.r.status,
                        d.r.raised \/ rd.raised, <<>>)
        /\ sh' = [pc |-> IF d.r.raised \/ rd.raised THEN "crashed" ELSE "idle",
                  status_msg |-> NoStatus,
                  screen |-> rd.screen,
                  trace |-> <<"input">>
                            \o (IF is_error(d.r.status) THEN <<"sleep">> ELSE <<>>)
                            \o <<"redraw">>]

\* run_shell() up to the first input(""): ensure_task_file(), redraw(None).
ShellStart ==
    /\ sh.pc = "start"
    /\ \E e \in {ensure_task_file(file, IO_OK)} :
       \E rd \in {redraw(e.f, NoStatus, IO_OK)} :
           /\ file' = rd.f
           /\ last' = Call("ensure", <<>>, 0, file, NoStatus,
                           e.raised \/ rd.raised, <<>>)
           /\ sh' = [pc |-> IF e.raised \/ rd.raised THEN "crashed" ELSE "idle",
                     status_msg |-> NoStatus, screen |-> rd.screen,
                     trace |-> <<"redraw">>]
    /\ UNCHANGED <<hist, nops, inst>>

\* One line read at input(""), or EOFError / KeyboardInterrupt, and the
\* iteration it starts: to the break, to the (y/N) prompt, or through the
\* call, the pause and the next redraw.  The input holds at most MaxOps
\* lines and ends after them.
Command(line) ==
    /\ sh.pc = "idle"
    /\ (nops < MaxOps \/ line = EOF)
    /\ nops' = nops + 1
    /\ UNCHANGED <<hist, inst>>
    /\ IF line \in {EOF, INT}
       THEN /\ last' = Call("eof", line, 0, file, NoStatus, FALSE, <<>>)
            /\ sh' = [sh EXCEPT !.pc = "done", !.trace = <<"input", "goodbye">>]
            /\ UNCHANGED file
       ELSE LET command == lower(strip(line))
            IN  IF command = CMD_EXIT
                THEN /\ last' = Call("exit", line, 0, file, NoStatus, FALSE, <<>>)
                     /\ sh' = [sh EXCEPT !.pc = "done", !.trace = <<"input">>]
                     /\ UNCHANGED file
                ELSE IF command = CMD_CLEARALL
                THEN /\ last' = Call("prompt", line, 0, file, NoStatus, FALSE, <<>>)
                     /\ sh' = [sh EXCEPT !.pc = "confirm",
                                         !.trace = <<"input", "prompt">>]
                     /\ UNCHANGED file
                ELSE \E d \in {dispatch(file, command, IO_OK)} :
                         LoopAgain(d, line, file)

\* Confirm ending the shell on EOFError and KeyboardInterrupt at the
\* (y/N) prompt.
Confirm_eof_ends(answer) ==
    /\ sh.pc = "confirm"
    /\ UNCHANGED <<hist, nops, inst>>
    /\ IF answer \in {EOF, INT}
       THEN /\ last' = Call("cancel", answer, 0, file, NoStatus, FALSE, <<>>)
            /\ sh' = [sh EXCEPT !.pc = "done", !.trace = <<"input", "goodbye">>]
            /\ UNCHANGED file
       ELSE \E d \in {confirm_clearall(file, answer, IO_OK)} :
                LoopAgain(d, answer, file)

\* The answer read at the (y/N) prompt, and the rest of the iteration.
Confirm(answer) ==
    /\ sh.pc = "confirm"
    /\ UNCHANGED <<hist, nops, inst>>
    /\ \E d \in {confirm_clearall(file, answer, IO_OK)} :
           LoopAgain(d, answer, file)

ShellNext ==
    \/ ShellStart
    \/ \E line \in CommandLines \cup {EOF, INT} : Command(line)
    \/ \E answer \in ConfirmLines \cup {EOF, INT} : Confirm(answer)

ShellSpec == ShellInit /\ [][ShellNext]_vars

\* The input ends: a shell that waits at input("") for a command gets
\* EOFError in the end.
ShellLiveSpec == ShellSpec /\ WF_vars(Command(EOF))

---------------------------------------------------------------------------
(* The claims about the operations, checked under Spec.                    *)

\* The lines and the task lines of the file the last call found.
PreLines == load_tasks(last.pre, IO_OK).lines
PreTasks == TaskLines(last.pre)

\* C1: after a run of add calls on a file ensure accepted, list returns
\* the task lines there were before the run followed by one task per add
\* that reported success, in call order, numbered consecutively, each the
\* line "- [ ] " and the trimmed text.
C1_AddsThenList ==
    last.op = "list" =>
        /\ Len(last.listed) = Len(hist.base) + Len(hist.adds)
        /\ \A k \in 1..Len(hist.base) :
               /\ last.listed[k].number = k
               /\ last.listed[k].line = hist.base[k]
        /\ \A k \in 1..Len(hist.adds) :
               /\ last.listed[Len(hist.base) + k].number = Len(hist.base) + k
               /\ last.listed[Len(hist.base) + k].line = NEW_TASK \o hist.adds[k]

\* C2: check(i) of a task line that carries "- [ ] ", whatever follows it,
\* succeeds and changes that line's marker to "- [x] " and nothing else;
\* and check returns AlreadyComplete only when the character in the
\* brackets of the target line is x or X.
C2_CheckFlipsMarker ==
    last.op = "check" =>
        LET lines == PreLines
            task_lines == task_line_indexes(lines)
            in_range == last.index >= 1 /\ last.index <= Len(task_lines)
            k == task_lines[last.index]
        IN  /\ (in_range /\ startswith(lines[k], NEW_TASK)) =>
                /\ last.status.kind = "Checked"
                /\ load_tasks(file, IO_OK).lines =
                       [lines EXCEPT ![k] =
                           MARK_X \o SubSeq(lines[k], 6, Len(lines[k]))]
            /\ last.status.kind = "AlreadyComplete" =>
                /\ in_range
                /\ Len(lines[k]) >= 4
                /\ lines[k][4] \in {"x", "X"}

\* C3: a successful delete(i) with i in 1..N leaves N-1 task lines: those
\* of ranks below i as they were, those of ranks above i one rank lower,
\* and the one of rank i gone.
C3_DeleteShifts ==
    (last.op = "delete" /\ last.status.kind = "Deleted"
        /\ last.index >= 1 /\ last.index <= Len(PreTasks)) =>
        LET post == TaskLines(file)
        IN  /\ Len(post) = Len(PreTasks) - 1
            /\ \A k \in 1..(last.index - 1) : post[k] = PreTasks[k]
            /\ \A k \in last.index..Len(post) : post[k] = PreTasks[k + 1]

C3_Witness ==
    /\ last.op = "delete" /\ last.status.kind = "Deleted"
    /\ last.index > 1 /\ last.index < Len(PreTasks)
    /\ Len(PreLines) > Len(PreTasks) + 1

\* C4: with N task lines, check(index) and delete(index) with index < 1 or
\* index > N return NotFound and leave the file as it was; with index in
\* 1..N neither returns NotFound.
C4_IndexRange ==
    last.op \in {"check", "delete"} =>
        IF last.index < 1 \/ last.index > Len(PreTasks)
        THEN last.status.kind = "NotFound" /\ file = last.pre
        ELSE last.status.kind # "NotFound"

C4_Witness ==
    /\ last.op = "delete" /\ last.status.kind = "NotFound"
    /\ last.index > Len(PreTasks) /\ Len(PreTasks) >= 1

\* A task line marked complete: "- [x] " read case-insensitively.
CompleteLine(l) == startswith(lower(l), MARK_X \o <<SP>>)
IncompleteLine(l) == is_task_line(l) /\ ~CompleteLine(l)

\* C5: after clearCompleted succeeds no task line of the file is marked
\* complete ("- [x] " or "- [X] "), the count reported is the number of
\* complete task lines there were, and the incomplete task lines remain
\* in their order.
C5_ClearRemovesComplete ==
    (last.op = "clear" /\ last.status.kind = "Cleared") =>
        /\ SelectSeq(TaskLines(file), CompleteLine) = <<>>
        /\ last.status.num = Len(SelectSeq(PreTasks, CompleteLine))
        /\ SelectSeq(TaskLines(file), IncompleteLine)
               = SelectSeq(PreTasks, IncompleteLine)

\* C6: a check(i) that reports success, followed at once by check(i),
\* returns AlreadyComplete the second time and leaves the file as the
\* first call left it.
C6_CheckTwice ==
    [][ (/\ last.op = "check" /\ last.status.kind = "Checked"
         /\ last'.op = "check" /\ last'.index = last.index
         /\ nops' = nops + 1)
        => (last'.status.kind = "AlreadyComplete" /\ file' = file) ]_vars

\* C7: clearAll on a file with no task line returns NoTasks and does not
\* write the file; on a file with N >= 1 task lines it removes every task
\* line and reports N.
C7_ClearAll ==
    last.op = "clearall" =>
        IF Len(PreTasks) = 0
        THEN last.status.kind = "NoTasks" /\ file = last.pre
        ELSE /\ last.status.kind = "ClearedAll"
             /\ last.status.num = Len(PreTasks)
             /\ TaskLines(file) = <<>>

C7_Witness ==
    /\ last.op = "clearall" /\ last.status.kind = "NoTasks"
    /\ Len(PreLines) >= 1

\* The lines of the content of a file, as text mode reads it.
LinesOf(f) == splitlines(read_text(f.bytes))

\* C8: after ensure returns on an existing readable file, the first line
\* of the file is exactly "# Task List", and every line of the original
\* content that begins with "- [" is still there, in the original order.
C8_EnsureHeaderFirst ==
    (last.op = "ensure" /\ last.pre.exists) =>
        /\ LinesOf(file) # <<>>
        /\ LinesOf(file)[1] = HEADER
        /\ SelectSeq(LinesOf(file), is_task_line)
               = SelectSeq(LinesOf(last.pre), is_task_line)

\* C11: add, check, delete, clearCompleted and clearAll, called on a file
\* ensure accepted or on what earlier calls made of it, leave the lines
\* that do not begin with "- [", the header included, as they were, in
\* content and in order.
C11_OtherLinesKept ==
    last.op \in {"add", "check", "delete", "clear", "clearall"} =>
        OtherLines(file) = OtherLines(last.pre)


\* C13: when clearCompleted succeeds and is called again at once, the
\* second call reports 0 removed and leaves the content of the file as the
\* first call left it.
C13_ClearTwice ==
    [][ (/\ last.op = "clear" /\ last.status.kind = "Cleared"
         /\ last'.op = "clear"
         /\ nops' = nops + 1)
        => (/\ last'.status.kind = "Cleared"
            /\ last'.status.num = 0
            /\ file'.bytes = file.bytes) ]_vars

C13_Witness ==
    /\ last.op = "clear" /\ last.status.kind = "Cleared"
    /\ last.prev.op = "clear" /\ last.prev.kind = "Cleared"
    /\ last.prev.num >= 1
    /\ last.status.num = 0
    /\ file.bytes = last.pre.bytes /\ file.mtime = last.pre.mtime + 1

\* C18: add is a read and a write of the whole file like the other
\* operations: the file after a successful add(text) holds what saving
\* the lines load returns, followed by the line "- [ ] " and the trimmed
\* text, would write.
C18_AddIsLoadAppendSave ==
    (last.op = "add" /\ last.status.kind = "Added") =>
        file.bytes =
            save_tasks(last.pre,
                       Append(load_tasks(last.pre, IO_OK).lines,
                              NEW_TASK \o strip(last.text)),
                       IO_OK).f.bytes

---------------------------------------------------------------------------
(* The claims about the interactive shell, checked under ShellSpec.        *)

\* The last step read an answer at the (y/N) prompt.
Answered == last.op \in {"clearall", "cancel"}

\* C9, as claimed: after clearall, clear_all_tasks is called only if the
\* answer is exactly the lower-case letter y; every other answer, upper-case
\* Y, nothing, end of input and an interrupt included, cancels and leaves
\* the file as it was.
C9_OnlyLowercaseY ==
    Answered =>
        /\ last.op = "clearall" => last.text = YES
        /\ last.text # YES =>
               /\ last.op = "cancel"
               /\ last.status.kind = "Cancelled"
               /\ file = last.pre

\* C9, amended: after clearall, clear_all_tasks is called exactly when the
\* answer is a line that is y or Y once the whitespace around it is
\* trimmed; every other answer, nothing, end of input and an interrupt
\* included, cancels and leaves the file as it was.
C9_YesInAnyCase ==
    Answered =>
        IF last.text \notin {EOF, INT} /\ strip(last.text) \in {<<"y">>, <<"Y">>}
        THEN last.op = "clearall"
        ELSE /\ last.op = "cancel"
             /\ last.status.kind = "Cancelled"
             /\ file = last.pre

C9_Witness ==
    /\ last.op = "clearall" /\ last.text = <<"Y">>
    /\ last.status.kind = "ClearedAll"
    /\ TaskLines(last.pre) # <<>> /\ TaskLines(file) = <<>>

\* The last step read a command line at the prompt.
ReadCommand ==
    /\ last.op \notin {"none", "ensure", "clearall", "cancel"}
    /\ last.text \notin {EOF, INT}

\* C10: a line whose first word is check or delete, with no argument or
\* with one that is no integer, gives the InvalidNumber status, not
\* UnknownCommand and not a crash, and leaves the file as it was.
C10_BadNumberIsInvalidNumber ==
    (/\ ReadCommand
     /\ split(last.text) # <<>>
     /\ split(last.text)[1] \in {<< "c", "h", "e", "c", "k" >>,
                                 << "d", "e", "l", "e", "t", "e" >>}
     /\ (Len(split(last.text)) = 1 \/ ~int_ok(split(last.text)[2])))
    => /\ last.status.kind = "InvalidNumber"
       /\ sh.screen.status.kind = "InvalidNumber"
       /\ sh.pc = "idle"
       /\ file = last.pre

\* The rest of a typed line after its first word, runs of whitespace
\* collapsed and the ends trimmed, the characters as typed.
TypedRest(line) == join(<<SP>>, Tail(split(line)))

\* s ends with t.
EndsWith(s, t) ==
    Len(s) >= Len(t) /\ SubSeq(s, Len(s) - Len(t) + 1, Len(s)) = t

\* C12: the shell command add <rest> calls add with the rest of the typed
\* line, changed only in its whitespace; the task text reported and stored
\* has the non-whitespace characters the user typed, in their letter case.
C12_AddKeepsTypedText ==
    (ReadCommand /\ last.op = "add" /\ last.status.kind = "Added") =>
        /\ last.status.text = TypedRest(last.text)
        /\ EndsWith(file.bytes, NEW_TASK \o TypedRest(last.text) \o <<NL>>)

\* The redraws of the last step of the shell.
Redraws == {i \in DOMAIN sh.trace : sh.trace[i] = "redraw"}

\* C16: the status a command produces is printed by the one redraw that
\* follows the command and by no later one: every step that redraws
\* redraws once, prints the status of the command of that step and
\* nothing kept from an earlier command (after list, which produces no
\* status, it prints none), and leaves status_msg empty.
C16_StatusShownOnce ==
    Redraws # {} =>
        /\ Cardinality(Redraws) = 1
        /\ sh.screen.status = last.status
        /\ last.op \in {"list", "ensure"} => sh.screen.status = NoStatus
        /\ sh.status_msg = NoStatus

C16_Witness ==
    /\ sh.pc = "idle" /\ last.op = "check"
    /\ last.prev.kind = "Checked"
    /\ last.status.kind = "AlreadyComplete"
    /\ Redraws # {}
    /\ sh.screen.status.kind = "AlreadyComplete"

\* The pauses of the last step of the shell.
Sleeps == {i \in DOMAIN sh.trace : sh.trace[i] = "sleep"}

\* C17: after a command that yields an error status the status is shown
\* first, the pause runs next, and the screen is cleared by a redraw only
\* after the pause: the redraw that prints the status comes before the
\* pause; and a command whose status is no error status is followed by no
\* pause.
C17_StatusShownBeforePause ==
    Redraws # {} =>
        /\ is_error(last.status) =>
               /\ sh.screen.status = last.status
               /\ \E i \in Redraws : \E j \in Sleeps : i < j
        /\ ~is_error(last.status) => Sleeps = {}

\* The line is the command exit, end of input or an interrupt.
EndsShell(line) ==
    line \in {EOF, INT} \/ lower(strip(line)) = CMD_EXIT

\* The last step read a line while the shell awaited a command.
ReadAtIdle == last.op \notin {"none", "ensure", "clearall", "cancel"}

\* The shell has ended exactly when the line it read awaiting a command
\* was exit, end of input or an interrupt, that step was its last and
\* left the file alone; every other line read there, and every answer at
\* the (y/N) prompt, brought it back to await a command (through the
\* prompt for clearall).
EndsOnExitOnly ==
    /\ sh.pc = "done" <=> (ReadAtIdle /\ EndsShell(last.text))
    /\ sh.pc = "done" => file = last.pre
    /\ (ReadAtIdle /\ ~EndsShell(last.text)) =>
           sh.pc = (IF lower(strip(last.text)) = CMD_CLEARALL
                    THEN "confirm" ELSE "idle")
    /\ Answered => sh.pc = "idle"

\* C20: the shell ends exactly when, awaiting a command, it reads exit,
\* end of input or an interrupt; every other line read there, and every
\* answer at the (y/N) prompt, brings it back to await a command; once it
\* has ended it takes no step, so it reads and writes the file no more;
\* and when the input supplies its end to a shell that awaits a command,
\* no shell awaits a command for ever: it ends, or it has gone to wait
\* for an answer at the (y/N) prompt.
C20_EndsOnExitOnly ==
    /\ []EndsOnExitOnly
    /\ (sh.pc = "idle") ~> (sh.pc \in {"done", "confirm"})

C20_Witness ==
    /\ sh.pc = "done"
    /\ last.op = "exit" /\ last.text # CMD_EXIT
    /\ nops = 2
    /\ sh.screen.status.kind = "Cancelled"

---------------------------------------------------------------------------
(* load_tasks() followed by save_tasks() of the lines it returned, on      *)
(* every content of up to MaxContentLen characters out of a letter, the   *)
(* two line-end characters and a form feed.                                *)

MaxContentLen == 4

RoundTripBytes ==
    UNION { [1..n -> {"a", NL, CR, FF}] : n \in 0..MaxContentLen }

RoundTripInit ==
    /\ file \in {FileOf(b) : b \in RoundTripBytes}
    /\ last = NoCall
    /\ hist = [base |-> <<>>, adds |-> <<>>]
    /\ nops = 0
    /\ sh = ShellOff
    /\ inst = NoInst

\* lines = load_tasks()
Load ==
    /\ last.op = "none"
    /\ \E ld \in {load_tasks(file, IO_OK)} :
           /\ file' = ld.f
           /\ last' = Call("load", <<>>, 0, file, NoStatus, ld.raised, ld.lines)
    /\ UNCHANGED <<hist, nops, sh, inst>>

\* save_tasks(lines)
Save ==
    /\ last.op = "load"
    /\ \E sv \in {save_tasks(file, last.listed, IO_OK)} :
           /\ file' = sv.f
           /\ last' = Call("save", <<>>, 0, last.pre,
                           IF sv.ok THEN NoStatus
                           ELSE Status("ERR", "StorageError", <<>>, 0),
                           FALSE, last.listed)
    /\ UNCHANGED <<hist, nops, sh, inst>>

RoundTripNext == Load \/ Save

RoundTripSpec == RoundTripInit /\ [][RoundTripNext]_vars

\* C14: save(load()) leaves the file with the content it had, with one
\* newline added at its end when the last line had none; no line is added,
\* dropped, merged, split or altered.
C14_RoundTripSameContent ==
    last.op = "save" =>
        file.bytes = IF EndsWith(last.pre.bytes, <<NL>>)
                     THEN last.pre.bytes
                     ELSE last.pre.bytes \o <<NL>>

---------------------------------------------------------------------------
(* The storage helpers and the operations when reads and writes of the     *)
(* file may fail with OSError.  io says, for one call, whether its reads   *)
(* and its writes succeed; last.io records it.                             *)

MaxFaultCalls == 2

IOs == [rd : BOOLEAN, wr : BOOLEAN]

FaultCall(io, op, text, index, pre, status, raised, listed) ==
    [io |-> io] @@ Call(op, text, index, pre, status, raised, listed)

FaultReady ==
    last.op # "none" /\ ~last.raised /\ sh.pc = "off" /\ nops < MaxFaultCalls

\* main(): ensure_task_file()
FaultStart(io) ==
    /\ last.op = "none"
    /\ \E e \in {ensure_task_file(file, io)} :
           /\ file' = e.f
           /\ last' = FaultCall(io, "ensure", <<>>, 0, file, NoStatus,
                                e.raised, <<>>)
    /\ UNCHANGED <<hist, nops, sh, inst>>

FaultEnsure(io) ==
    /\ FaultReady
    /\ \E e \in {ensure_task_file(file, io)} :
           /\ file' = e.f
           /\ last' = FaultCall(io, "ensure", <<>>, 0, file, NoStatus,
                                e.raised, <<>>)
    /\ nops' = nops + 1
    /\ UNCHANGED <<hist, sh, inst>>

FaultLoad(io) ==
    /\ FaultReady
    /\ \E ld \in {load_tasks(file, io)} :
           /\ file' = ld.f
           /\ last' = FaultCall(io, "load", <<>>, 0, file, NoStatus,
                                ld.raised, ld.lines)
    /\ nops' = nops + 1
    /\ UNCHANGED <<hist, sh, inst>>

\* save_tasks(lines) of the lines a load_tasks() returned
FaultSave(io) ==
    /\ last.op = "load" /\ ~last.raised
    /\ \E sv \in {save_tasks(file, last.listed, io)} :
           /\ file' = sv.f
           /\ last' = FaultCall(io, "save", <<>>, 0, file,
                                IF sv.ok THEN NoStatus
                                ELSE Status("ERR", "StorageError", <<>>, 0),
                                FALSE, last.listed)
    /\ UNCHANGED <<hist, nops, sh, inst>>

FaultAdd(text, io) ==
    /\ FaultReady
    /\ \E r \in {add_task(file, text, io)} :
           /\ file' = r.f
           /\ last' = FaultCall(io, "add", text, 0, file, r.status, r.raised, <<>>)
    /\ nops' = nops + 1
    /\ UNCHANGED <<hist, sh, inst>>

FaultCheck(index, io) ==
    /\ FaultReady
    /\ \E r \in {check_task(file, index, io)} :
           /\ file' = r.f
           /\ last' = FaultCall(io, "check", <<>>, index, file, r.status,
                                r.raised, <<>>)
    /\ nops' = nops + 1
    /\ UNCHANGED <<hist, sh, inst>>

FaultDelete(index, io) ==
    /\ FaultReady
    /\ \E r \in {delete_task(file, index, io)} :
           /\ file' = r.f
           /\ last' = FaultCall(io, "delete", <<>>, index, file, r.status,
                                r.raised, <<>>)
    /\ nops' = nops + 1
    /\ UNCHANGED <<hist, sh, inst>>

FaultClearDone(io) ==
    /\ FaultReady
    /\ \E r \in {clear_done_tasks(file, io)} :
           /\ file' = r.f
           /\ last' = FaultCall(io, "clear", <<>>, 0, file, r.status,
                                r.raised, <<>>)
    /\ nops' = nops + 1
    /\ UNCHANGED <<hist, sh, inst>>

FaultClearAll(io) ==
    /\ FaultReady
    /\ \E r \in {clear_all_tasks(file, io)} :
           /\ file' = r.f
           /\ last' = FaultCall(io, "clearall", <<>>, 0, file, r.status,
                                r.raised, <<>>)
    /\ nops' = nops + 1
    /\ UNCHANGED <<hist, sh, inst>>

FaultNext ==
    \E io \in IOs :
        \/ FaultStart(io)
        \/ FaultEnsure(io)
        \/ FaultLoad(io)
        \/ FaultSave(io)
        \/ \E text \in AddTexts : FaultAdd(text, io)
        \/ \E index \in Indexes : FaultCheck(index, io)
        \/ \E index \in Indexes : FaultDelete(index, io)
        \/ FaultClearDone(io)
        \/ FaultClearAll(io)

FaultSpec == Init /\ [][FaultNext]_vars

\* C15: whatever reads and writes of the file fail, ensure, load, save,
\* add, check, delete, clearCompleted and clearAll return to their caller,
\* none raises; and add, check, delete, clearCompleted and clearAll, when
\* writes fail, report no success and leave the file as it was, the
\* status being StorageError unless the call ended before its write.
C15_NeverRaises ==
    last.op \in {"ensure", "load", "save", "add", "check", "delete",
                 "clear", "clearall"} =>
        /\ ~last.raised
        /\ (last.op \in {"add", "check", "delete", "clear", "clearall"}
            /\ ~last.io.wr) =>
               /\ last.status.kind \in {"StorageError", "EmptyInput",
                     "NotFound", "AlreadyComplete", "NoTasks"}
               /\ file = last.pre

---------------------------------------------------------------------------
(* Two instances of the program on the same file.  An operation that       *)
(* loads and saves takes two steps, the read of the whole file             *)
(* (load_tasks) and the write of the whole file (save_tasks); the other    *)
(* instance may step between them.  inst[i].snap is the file instance i    *)
(* read.  add_task is one write in append mode.  Each instance has run    *)
(* ensure_task_file and makes one call.                                    *)

\* The calls an instance makes.
RaceCalls ==
    {[op |-> o, text |-> <<>>, index |-> k] : o \in {"check", "delete"},
                                              k \in {1, 2}}
    \cup {[op |-> o, text |-> <<>>, index |-> 0] : o \in {"clear", "clearall"}}
    \cup {[op |-> "add", text |-> << "a" >>, index |-> 0]}

\* What the call returns when it runs on the file f alone.
apply(call, f, io) ==
    CASE call.op = "add" -> add_task(f, call.text, io)
      [] call.op = "check" -> check_task(f, call.index, io)
      [] call.op = "delete" -> delete_task(f, call.index, io)
      [] call.op = "clear" -> clear_done_tasks(f, io)
      [] call.op = "clearall" -> clear_all_tasks(f, io)

RaceCall(i, call, pre, status) ==
    [who |-> i] @@ Call(call.op, call.text, call.index, pre, status, FALSE, <<>>)

RaceInit ==
    /\ file \in {ensure_task_file(f, IO_OK).f : f \in InitFiles}
    /\ last = NoCall
    /\ hist = [base |-> <<>>, adds |-> <<>>]
    /\ nops = 0
    /\ sh = ShellOff
    /\ inst = [i \in Instances |-> [NoInst[i] EXCEPT !.pc = "idle"]]

\* lines = load_tasks() and what the operation computes from them: it
\* returns at once (NotFound, AlreadyComplete, NoTasks) or goes on to
\* save_tasks.
RaceLoad(i, call) ==
    /\ inst[i].pc = "idle"
    /\ call.op # "add"
    /\ \E r \in {apply(call, file, IO_OK)} :
           /\ inst' = [inst EXCEPT ![i] =
                  [pc |-> IF r.f = file THEN "returned" ELSE "loaded",
                   call |-> call, snap |-> file,
                   status |-> IF r.f = file THEN r.status ELSE NoStatus]]
           /\ last' = RaceCall(i, [call EXCEPT !.op = "load"], file, NoStatus)
    /\ UNCHANGED <<file, hist, nops, sh>>

\* save_tasks(lines) with the lines computed from the instance's own
\* load, the write that detects a file changed since the load and fails.
RaceSave_detecting(i) ==
    /\ inst[i].pc = "loaded"
    /\ \E r \in {apply(inst[i].call, inst[i].snap, IO_OK)} :
       \E st \in {IF file = inst[i].snap THEN r.status
                   ELSE Status("ERR", "StorageError", <<>>, 0)} :
           /\ file' = IF file = inst[i].snap
                      THEN written(file, r.f.bytes) ELSE file
           /\ inst' = [inst EXCEPT ![i].pc = "returned", ![i].status = st]
           /\ last' = RaceCall(i, [inst[i].call EXCEPT !.op = "save"], file, st)
    /\ UNCHANGED <<hist, nops, sh>>

\* save_tasks(lines) with the lines computed from the instance's own
\* load: write_text replaces whatever the file holds now.
RaceSave(i) ==
    /\ inst[i].pc = "loaded"
    /\ \E r \in {apply(inst[i].call, inst[i].snap, IO_OK)} :
           /\ file' = written(file, r.f.bytes)
           /\ inst' = [inst EXCEPT ![i].pc = "returned", ![i].status = r.status]
           /\ last' = RaceCall(i, [inst[i].call EXCEPT !.op = "save"], file,
                               r.status)
    /\ UNCHANGED <<hist, nops, sh>>

\* add_task(text): one write in append mode.
RaceAdd(i, call) ==
    /\ inst[i].pc = "idle"
    /\ call.op = "add"
    /\ \E r \in {apply(call, file, IO_OK)} :
           /\ file' = r.f
           /\ inst' = [inst EXCEPT ![i] =
                  [pc |-> "returned", call |-> call, snap |-> file,
                   status |-> r.status]]
           /\ last' = RaceCall(i, call, file, r.status)
    /\ UNCHANGED <<hist, nops, sh>>

RaceNext ==
    \E i \in Instances :
        \/ \E call \in RaceCalls : RaceLoad(i, call)
        \/ RaceSave(i)
        \/ \E call \in RaceCalls : RaceAdd(i, call)

RaceSpec == RaceInit /\ [][RaceNext]_vars

\* The statuses that report success.
SuccessKinds == {"Added", "Checked", "Deleted", "Cleared", "ClearedAll"}

\* The last step was the save of instance i, and the other instance wrote
\* the file after i loaded it.
SavedOver(i) ==
    /\ last.op = "save" /\ last.who = i
    /\ last.pre # inst[i].snap

\* C19: when instance B changes the file between the load and the save of
\* instance A in check, delete, clearCompleted or clearAll, the file after
\* the save of A holds exactly what A computed from the lines it loaded,
\* nothing of what B wrote, and both instances report success.
C19_LastWriterWins ==
    \A i \in Instances : \A j \in Instances \ {i} :
        SavedOver(i) =>
            /\ file.bytes = apply(inst[i].call, inst[i].snap, IO_OK).f.bytes
            /\ inst[i].status.kind \in SuccessKinds
            /\ inst[j].pc = "returned"
            /\ inst[j].status.kind \in SuccessKinds

C19_Witness ==
    /\ SavedOver("A")
    /\ inst["A"].call.op = "check" /\ inst["B"].call.op = "add"
    /\ Len(TaskLines(last.pre)) = Len(TaskLines(inst["A"].snap)) + 1
    /\ Len(TaskLines(file)) = Len(TaskLines(inst["A"].snap))
    /\ inst["A"].status.kind = "Checked" /\ inst["B"].status.kind = "Added"

====
